---- MODULE Spec2Model ----
(***************************************************************************)
(* A model of the apple2js emulator shell:                                 *)
(*   src/js/apple2.ts      the Apple2 class: construction, the run-loop    *)
(*                         (run / runFn / stop), getState / setState       *)
(*   src/js/ui/apple2.ts   the host UI: disk loading, pause, quick save    *)
(*                         and restore                                     *)
(*   src/js/formats/po.js  the ProDOS-order disk image loader              *)
(***************************************************************************)
EXTENDS Integers, Sequences, FiniteSets, TLC

(***************************************************************************)
(* Bounds of the model.                                                    *)
(***************************************************************************)
MaxHandle == 3      \* handles the host hands out (requestAnimationFrame / setInterval)
MaxRuns == 2        \* run() calls that take effect (each creates one runFn closure)
MaxTime == 40       \* the wall clock stops advancing here (ms)
MaxFrames == 2      \* ticks executed
MaxLoads == 1       \* disk loads started
MaxWaiters == 2     \* callbacks waiting on the vm.ready promise
MaxFragLoads == 3     \* loads started so far, up to which updateUI() is called

(***************************************************************************)
(* Program constants.                                                      *)
(***************************************************************************)
Null == 0                       \* null; every handle the host returns is > 0
Undefined == -1                 \* an option that was not given
Interval == 30                  \* let interval = 30
KHzValues == {1023, 4092}       \* the values updateCPU() gives io.updateKHz
TimeStep == 20                  \* the wall clock advances in steps of 20 ms
SmartPortSize == 800 * 1024     \* byteLength >= 800 * 1024 goes to SmartPort
DefaultVolume == 254            \* volume || 254
NumTracks == 35                 \* physical_track < 35
NumSectors == 16                \* physical_sector < 16
SectorSize == 256               \* off + 256

VARIABLES
    \* ---- construction options and the host (src/js/apple2.ts, Options)
    e,                  \* options.e: the machine is a IIe (this.mmu exists)
    multiScreen,        \* options.multiScreen
    hasRAF,             \* the host provides requestAnimationFrame
    prog,               \* what the program in memory does when executed
    \* ---- Apple2 fields, the closures run() creates, the host scheduler
    paused,             \* private paused = false
    runTimer,           \* Null or the setInterval handle
    runAnimationFrame,  \* Null or the requestAnimationFrame handle
    nRuns,              \* closures created so far; closure c is the c-th run()
    last,               \* last[c]: the `last` variable of closure c
    rafQueue,           \* requested animation frames not yet fired: [h, c]
    intervals,          \* active interval timers: [h, c]
    nextHandle,         \* the next handle the host returns
    prevTickAt,         \* history: when closure c last ticked (or was created)
    stopped,            \* history: stop() has returned and run() was not called since
    \* ---- ticks
    stats,              \* [frames, renderedFrames]
    inTick,             \* Null, or the closure whose runFn is inside this.tick()
    cpuStep,            \* the argument the most recent tick passed to cpu.stepCycles
    tickTrace,          \* the calls the most recent tick made, in order
    tickElapsed,        \* history: ms between the most recent tick and the one before
    tickBlit,           \* history: what the blits of the most recent tick reported
    \* ---- the wall clock and the machine
    now,                \* Date.now()
    kHz,                \* io.getKHz()
    cpu,                \* the CPU's register file: [a, pc]
    ram,                \* contents of the RAM banks
    mmuLatch,           \* the MMU latch vector (IIe only)
    ann0,               \* the I/O latch vector: annunciator 0
    \* ---- snapshots
    held,               \* the snapshot a caller of getState() holds, or NoSnapshot
    localState,         \* window.localStorage.state, or NoSnapshot
    heldMem,            \* history: RAM and latches at the moment `held` was taken
    \* ---- the host UI (src/js/ui/apple2.ts)
    uiPaused,           \* let paused = false
    focused,            \* let focused = false
    vmReady,            \* the vm.ready promise has resolved
    pendingReady,       \* vm.ready.then(() => _apple2.run()) callbacks not yet run
    fragment,           \* the URL fragment, split at '|'
    loadingModal,       \* the loading modal is shown
    alertMsg,           \* the message of the alert modal, "" when none was shown
    nLoads,             \* loads started so far
    inFlight,           \* loads whose FileReader / fetch has not completed
    lastLoad,           \* history: the most recently completed load and what became of it
    lastHash,           \* history: the argument of the most recent processHash(hash)
    hashtag,            \* let hashtag = document.location.hash
    \* ---- the keyboard listeners of the host UI
    keyCalls,           \* history: the io calls the most recent key event made
    \* ---- the binary loaders of the host UI
    binPending,         \* the FileReader of doLoadBinary that has not completed, or NoBin
    busCalls,           \* history: the cpu calls the most recent binary loader made
    lastBin,            \* history: the most recently completed binary load
    \* ---- ProDOS(options) (src/js/formats/po.js)
    poPhase,            \* "idle", "loop" (inside the for loops), "done" (returned)
    poOptions,          \* the options of the call
    poTrack,            \* physical_track
    poSector,           \* physical_sector
    poCur,              \* track: the nibbles of the track being built
    poDisk,             \* disk
    \* ---- history
    lastOp              \* the operation that produced this state

cfgVars == <<e, multiScreen, hasRAF, prog>>
loopVars == <<paused, runTimer, runAnimationFrame, nRuns, last, rafQueue, intervals,
              nextHandle, prevTickAt, stopped>>
tickVars == <<stats, inTick, cpuStep, tickTrace, tickElapsed, tickBlit>>
machineVars == <<cpu, ram, mmuLatch, ann0>>
snapVars == <<held, localState, heldMem>>
uiVars == <<uiPaused, focused, vmReady, pendingReady, fragment, loadingModal, alertMsg,
            nLoads, inFlight, lastLoad, lastHash, hashtag>>
keyVars == <<keyCalls>>
binVars == <<binPending, busCalls, lastBin>>
poVars == <<poPhase, poOptions, poTrack, poSector, poCur, poDisk>>
vars == <<cfgVars, loopVars, tickVars, now, kHz, machineVars, snapVars, uiVars, poVars,
          keyVars, binVars, lastOp>>

Min(a, b) == IF a < b THEN a ELSE b

\* JavaScript truthiness of a `number | null` handle.
Truthy(h) == h # Null /\ h # 0

(***************************************************************************)
(* The CPU (cpu6502).                                                      *)
(***************************************************************************)
RegVals == 0..1
RamVals == 0..1

\* cpu.stepCycles(n): whole instructions until the cycle counter advanced by
\* >= n.  What the instructions do depends on the program: a loop that touches
\* neither RAM nor soft switches ("spin") leaves everything but the cycle counter
\* as it was; one that only switches annunciator 0 ("ann") may leave that latch
\* in either state; any other program may leave any register contents, RAM
\* contents and latch states.  The cycle counter itself, monotonic and unbounded, is not
\* tracked.
StepCyclesOutcomes(c, r, m, a, n) ==
    IF n <= 0
    THEN {[cpu |-> c, ram |-> r, mmu |-> m, ann0 |-> a]}
    ELSE IF prog = "spin"
    THEN {[cpu |-> c, ram |-> r, mmu |-> m, ann0 |-> a]}
    ELSE IF prog = "ann"
    THEN {[cpu |-> c, ram |-> r, mmu |-> m, ann0 |-> a2] : a2 \in BOOLEAN}
    ELSE {[cpu |-> [a |-> x, pc |-> p], ram |-> r2, mmu |-> m2, ann0 |-> a2] :
            x \in RegVals, p \in RegVals, r2 \in RamVals,
            m2 \in (IF e THEN BOOLEAN ELSE {m}), a2 \in BOOLEAN}

\* cpu.reset(): the RESET interrupt; the program counter is loaded from the
\* reset vector (location 0 of the model), the accumulator is kept.
CpuReset(c) == [c EXCEPT !.pc = 0]

\* cpu.getState() / cpu.setState(): snapshot / restore of the register file.
CpuGetState(c) == [a |-> c.a, pc |-> c.pc]
CpuSetState(c, st) == [c EXCEPT !.a = st.a, !.pc = st.pc]

(***************************************************************************)
(* Apple2.run / runFn / stop  (src/js/apple2.ts 87-165)                    *)
(***************************************************************************)
\* if (this.runTimer || this.runAnimationFrame) return;
AlreadyRunningTimerOnly(rt, raf) == Truthy(rt)
AlreadyRunningAlways(rt, raf) == TRUE
AlreadyRunning(rt, raf) == Truthy(rt) \/ Truthy(raf)

\* step = (now - last) * kHz, stepMax = kHz * interval; if (step > stepMax) step = stepMax
StepBudgetNoCap(elapsed, k) == elapsed * k
StepBudget(elapsed, k) ==
    LET step == elapsed * k
        stepMax == k * Interval
    IN IF step > stepMax THEN stepMax ELSE step

\* The blits of one tick (lines 129-140), in order.
BlitCalls(ann, vmChanged, ioChanged) ==
    IF ann
    THEN (IF multiScreen THEN <<"vm.blit">> ELSE <<>>) \o <<"io.blit">>
         \o (IF ioChanged THEN <<"renderedFrames++">> ELSE <<>>)
    ELSE <<"vm.blit">> \o (IF vmChanged THEN <<"renderedFrames++">> ELSE <<>>)

\* Whether the tick increments renderedFrames.
RenderedAnyBlit(ann, vmChanged, ioChanged) ==
    IF ann THEN ioChanged \/ (multiScreen /\ vmChanged) ELSE vmChanged
Rendered(ann, vmChanged, ioChanged) ==
    IF ann THEN ioChanged ELSE vmChanged

\* this.stats after the tick: renderedFrames++ when rendered, frames++ always
StatsAfterTickNoFrame(st, rendered) ==
    [frames |-> st.frames, renderedFrames |-> st.renderedFrames + (IF rendered THEN 1 ELSE 0)]
StatsAfterTick(st, rendered) ==
    [frames |-> st.frames + 1,
     renderedFrames |-> st.renderedFrames + (IF rendered THEN 1 ELSE 0)]

\* What vm.blit() and io.blit() returned in the tick: "none" when not called
BlitReport(ann, vmChanged, ioChanged) ==
    [vm |-> IF ann /\ ~multiScreen THEN "none"
            ELSE IF vmChanged THEN "changed" ELSE "same",
     io |-> IF ~ann THEN "none"
            ELSE IF ioChanged THEN "changed" ELSE "same"]

\* The calls of one tick from cpu.stepCycles to the this.tick() hook (lines
\* 124-143), in order, given the blits
TickCallsResetAlways(isE, blits) ==
    <<"stepCycles", "resetVB">> \o blits \o <<"frames++", "io.tick", "tick">>
TickCalls(isE, blits) ==
    <<"stepCycles">> \o (IF isE THEN <<"resetVB">> ELSE <<>>) \o blits
    \o <<"frames++", "io.tick", "tick">>

\* run(), on the fields of Apple2 and the host scheduler
RunCore ==
    /\ stopped' = FALSE
    /\ IF AlreadyRunning(runTimer, runAnimationFrame)
       THEN UNCHANGED <<paused, runTimer, runAnimationFrame, nRuns, last, rafQueue,
                        intervals, nextHandle, prevTickAt>>
       ELSE /\ nRuns < MaxRuns
            /\ nextHandle <= MaxHandle
            /\ nRuns' = nRuns + 1
            /\ last' = [last EXCEPT ![nRuns + 1] = now]
            /\ prevTickAt' = [prevTickAt EXCEPT ![nRuns + 1] = now]
            /\ nextHandle' = nextHandle + 1
            /\ IF hasRAF
               THEN /\ runAnimationFrame' = nextHandle
                    /\ rafQueue' = rafQueue \cup {[h |-> nextHandle, c |-> nRuns + 1]}
                    /\ UNCHANGED <<runTimer, intervals>>
               ELSE /\ runTimer' = nextHandle
                    /\ intervals' = intervals \cup {[h |-> nextHandle, c |-> nRuns + 1]}
                    /\ UNCHANGED <<runAnimationFrame, rafQueue>>
            /\ UNCHANGED paused

\* stop(), on the fields of Apple2 and the host scheduler
StopCore ==
    /\ intervals' = IF Truthy(runTimer)
                    THEN {t \in intervals : t.h # runTimer} ELSE intervals
    /\ rafQueue' = IF Truthy(runAnimationFrame)
                   THEN {r \in rafQueue : r.h # runAnimationFrame} ELSE rafQueue
    /\ runTimer' = Null
    /\ runAnimationFrame' = Null
    /\ stopped' = TRUE
    /\ UNCHANGED <<paused, nRuns, last, nextHandle, prevTickAt>>

\* run(), called between ticks or from the this.tick() hook
Run ==
    /\ RunCore
    /\ lastOp' = IF AlreadyRunning(runTimer, runAnimationFrame) THEN "runNoop" ELSE "run"
    /\ UNCHANGED <<cfgVars, tickVars, now, kHz, machineVars, snapVars, uiVars, poVars,
                   keyVars, binVars>>

\* stop(), called between ticks or from the this.tick() hook
Stop ==
    /\ StopCore
    /\ lastOp' = "stop"
    /\ UNCHANGED <<cfgVars, tickVars, now, kHz, machineVars, snapVars, uiVars, poVars,
                   keyVars, binVars>>

\* runFn, from its first line to the call of the this.tick() hook (lines 101-143).
TickBegin(cb) ==
    /\ inTick = Null
    /\ cb \in rafQueue \cup intervals
    /\ stats.frames < MaxFrames
    /\ LET c == cb.c
           step == StepBudget(now - last[c], kHz)
       IN /\ cpuStep' = step
          /\ tickElapsed' = now - prevTickAt[c]
          /\ last' = [last EXCEPT ![c] = now]
          /\ prevTickAt' = [prevTickAt EXCEPT ![c] = now]
          /\ inTick' = c
          /\ \E o \in StepCyclesOutcomes(cpu, ram, mmuLatch, ann0, step) :
                /\ cpu' = o.cpu
                /\ ram' = o.ram
                /\ mmuLatch' = o.mmu
                /\ ann0' = o.ann0
                /\ \E vmChanged \in BOOLEAN, ioChanged \in BOOLEAN :
                      /\ stats' = StatsAfterTick(stats, Rendered(o.ann0, vmChanged, ioChanged))
                      /\ tickBlit' = BlitReport(o.ann0, vmChanged, ioChanged)
                      /\ tickTrace' = TickCalls(e, BlitCalls(o.ann0, vmChanged, ioChanged))
    /\ rafQueue' = rafQueue \ {cb}
    /\ lastOp' = "tick"
    /\ UNCHANGED <<cfgVars, paused, runTimer, runAnimationFrame, nRuns, intervals, nextHandle,
                   stopped, now, kHz, snapVars, uiVars, poVars,
                   keyVars, binVars>>

\* if (!this.paused && requestAnimationFrame)
ReschedulesNever(p, raf) == FALSE
Reschedules(p, raf) == ~p /\ raf

\* runFn after the hook returned (lines 145-147).
TickEnd ==
    /\ inTick # Null
    /\ IF Reschedules(paused, hasRAF)
       THEN /\ nextHandle <= MaxHandle
            /\ runAnimationFrame' = nextHandle
            /\ rafQueue' = rafQueue \cup {[h |-> nextHandle, c |-> inTick]}
            /\ nextHandle' = nextHandle + 1
            /\ tickTrace' = Append(tickTrace, "requestAnimationFrame")
       ELSE UNCHANGED <<runAnimationFrame, rafQueue, nextHandle, tickTrace>>
    /\ inTick' = Null
    /\ lastOp' = "tickEnd"
    /\ UNCHANGED <<cfgVars, paused, runTimer, nRuns, last, intervals, prevTickAt, stopped,
                   stats, cpuStep, tickElapsed, tickBlit, now, kHz, machineVars, snapVars,
                   uiVars, poVars,
                   keyVars, binVars>>

(***************************************************************************)
(* The host: the wall clock, and updateCPU() (src/js/ui/apple2.ts 830-834). *)
(***************************************************************************)
Advance(d) ==
    /\ now + d <= MaxTime
    /\ now' = now + d
    /\ lastOp' = "advance"
    /\ UNCHANGED <<cfgVars, loopVars, tickVars, kHz, machineVars, snapVars, uiVars, poVars,
                   keyVars, binVars>>

UpdateCPU ==
    /\ \E k \in KHzValues : kHz' = k
    /\ lastOp' = "updateCPU"
    /\ UNCHANGED <<cfgVars, loopVars, tickVars, now, machineVars, snapVars, uiVars, poVars,
                   keyVars, binVars>>

(***************************************************************************)
(* Apple2.getState / setState (src/js/apple2.ts 167-177) and the quick     *)
(* save / quick restore keys (src/js/ui/apple2.ts 768-773).                *)
(***************************************************************************)
NoSnapshot == [absent |-> TRUE]

\* getState(): const state: State = { cpu: this.cpu.getState() }
Apple2GetStateNoPC(c) == [cpu |-> [a |-> c.a, pc |-> 0]]
Apple2GetState(c) == [cpu |-> CpuGetState(c)]

\* setState(state): this.cpu.setState(state.cpu)
Apple2SetState(c, state) == CpuSetState(c, state.cpu)

\* base64_json_stringify / base64_json_parse: a string that holds the value
Stringify(state) == [json |-> state]
Parse(str) == str.json

\* Snapshots written by another version of the program: they carry a version
\* number this build does not write.
ForeignSnapshots == {[version |-> 2, cpu |-> [a |-> x, pc |-> p]] : x \in RegVals, p \in RegVals}
VersionMismatch(state) == "version" \in DOMAIN state

\* state = apple2.getState()
GetState ==
    /\ held' = Apple2GetState(cpu)
    /\ heldMem' = [ram |-> ram, mmu |-> mmuLatch, ann0 |-> ann0]
    /\ lastOp' = "getState"
    /\ UNCHANGED <<cfgVars, loopVars, tickVars, now, kHz, machineVars, localState, uiVars,
                   poVars,
                   keyVars, binVars>>

\* apple2.setState(state) with a snapshot taken earlier
SetState ==
    /\ held # NoSnapshot
    /\ cpu' = Apple2SetState(cpu, held)
    /\ lastOp' = "setState"
    /\ UNCHANGED <<cfgVars, loopVars, tickVars, now, kHz, ram, mmuLatch, ann0, snapVars,
                   uiVars, poVars,
                   keyVars, binVars>>

\* apple2.setState(apple2.getState())
RoundTrip ==
    /\ cpu' = Apple2SetState(cpu, Apple2GetState(cpu))
    /\ lastOp' = "roundTrip"
    /\ UNCHANGED <<cfgVars, loopVars, tickVars, now, kHz, ram, mmuLatch, ann0, snapVars,
                   uiVars, poVars,
                   keyVars, binVars>>

\* The value keyboard.mapKeyEvent(evt) returns for a key it has no mapping
\* for, and the key F3 sends.
Unmapped == 255
Escape == 27

\* The outcomes of keyboard.mapKeyEvent(evt): unmapped, or the code of 'A'
MapKeyOutcomes == {Unmapped, 65}

\* io.keyDown(key) and io.keyUp(), as entries of keyCalls
IoKeyDown(key) == [op |-> "keyDown", key |-> key]
IoKeyUp == [op |-> "keyUp", key |-> -1]

\* The first block of _keydown (lines 733-740); isE is window.e, key is
\* what keyboard.mapKeyEvent(evt) returns
KeyDownMapped(foc, meta, ctrl, isE, key) ==
    IF ~foc /\ (~meta \/ ctrl \/ isE)
    THEN (IF key # Unmapped THEN <<IoKeyDown(key)>> ELSE <<>>)
    ELSE <<>>

\* F6: window.localStorage.state = base64_json_stringify(_apple2.getState())
QuickSave ==
    /\ \E meta \in BOOLEAN, ctrl \in BOOLEAN, key \in MapKeyOutcomes :
          keyCalls' = KeyDownMapped(focused, meta, ctrl, e, key)
    /\ localState' = Stringify(Apple2GetState(cpu))
    /\ lastOp' = "quickSave"
    /\ UNCHANGED <<cfgVars, loopVars, tickVars, now, kHz, machineVars, held, heldMem, uiVars,
                   poVars, binVars>>

\* F9: if (window.localStorage.state) _apple2.setState(base64_json_parse(...))
QuickRestore ==
    /\ \E meta \in BOOLEAN, ctrl \in BOOLEAN, key \in MapKeyOutcomes :
          keyCalls' = KeyDownMapped(focused, meta, ctrl, e, key)
    /\ IF localState # NoSnapshot
       THEN /\ cpu' = Apple2SetState(cpu, Parse(localState))
            /\ lastOp' = "quickRestore"
       ELSE /\ cpu' = cpu
            /\ lastOp' = "quickRestoreNone"
    /\ UNCHANGED <<cfgVars, loopVars, tickVars, now, kHz, ram, mmuLatch, ann0, snapVars,
                   uiVars, poVars,
                   binVars>>

\* localStorage.state holds a snapshot another version of the program wrote
ForeignState ==
    /\ \E s \in ForeignSnapshots : localState' = Stringify(s)
    /\ lastOp' = "foreignState"
    /\ UNCHANGED <<cfgVars, loopVars, tickVars, now, kHz, machineVars, held, heldMem, uiVars,
                   poVars,
                   keyVars, binVars>>

\* The program runs for a while between two calls of the snapshot interface.
StepCyclesDirect ==
    /\ \E o \in StepCyclesOutcomes(cpu, ram, mmuLatch, ann0, 1) :
          /\ cpu' = o.cpu
          /\ ram' = o.ram
          /\ mmuLatch' = o.mmu
          /\ ann0' = o.ann0
    /\ lastOp' = "stepCycles"
    /\ UNCHANGED <<cfgVars, loopVars, tickVars, now, kHz, snapVars, uiVars, poVars,
                   keyVars, binVars>>

\* reset(): this.cpu.reset()  (src/js/apple2.ts 179-181)
ResetStops ==
    /\ cpu' = CpuReset(cpu)
    /\ StopCore
    /\ lastOp' = "reset"
    /\ UNCHANGED <<cfgVars, tickVars, now, kHz, ram, mmuLatch, ann0, snapVars, uiVars, poVars,
                   keyVars, binVars>>

Reset ==
    /\ cpu' = CpuReset(cpu)
    /\ lastOp' = "reset"
    /\ UNCHANGED <<cfgVars, loopVars, tickVars, now, kHz, ram, mmuLatch, ann0, snapVars,
                   uiVars, poVars,
                   keyVars, binVars>>

(***************************************************************************)
(* Disk loading in the host UI (src/js/ui/apple2.ts).                      *)
(***************************************************************************)
\* A file name is the sequence of its parts between dots.  A URL is
\* represented by the file name in its last path segment; the empty URL by <<>>.
FileNames == {<<"GAME", "DSK">>, <<"hd", "po">>, <<"notes", "txt">>}
NoUrl == <<>>
Sizes == {SmartPortSize - 1, SmartPortSize}
Drives == {1, 2}

\* String.prototype.toLowerCase on the words that occur in FileNames
ToLower(w) ==
    CASE w = "DSK" -> "dsk"
      [] w = "GAME" -> "game"
      [] w = "JSON" -> "json"
      [] w = "http://host/GAME" -> "http://host/game"
      [] OTHER -> w

\* parts[parts.length - 1].toLowerCase()  /  parts.pop().toLowerCase()
Ext(name) == ToLower(name[Len(name)])

\* DISK_FORMATS: the extensions the disk surface accepts
DiskFormats == {"dsk", "do", "po", "nib", "2mg", "woz"}

\* An element of the fragment: sep is element.indexOf('://') (-1: absent),
\* parts is element.split('.').  A fragment is the sequence hash.split('|').
EmptyElement == [sep |-> -1, parts |-> <<"">>]

\* files[drive - 1] = '' on the parts of the fragment, then join('|')
SetPart(parts, drive, v) ==
    [i \in 1..(IF Len(parts) > drive THEN Len(parts) ELSE drive) |->
        IF i = drive THEN v ELSE IF i <= Len(parts) THEN parts[i] ELSE EmptyElement]

\* No FileReader of doLoadBinary is in flight; no binary has been loaded.
NoBin == [address |-> -1, runOnLoad |-> FALSE, bytes |-> <<>>]
NoBinLoad == [loader |-> "none", start |-> -1, bytes |-> <<>>, run |-> FALSE]

NoLoad == [kind |-> "none", drive |-> 0, ext |-> "", size |-> 0, dev |-> "none",
           ok |-> FALSE, alerted |-> FALSE, gamepad |-> FALSE]

\* The device whose setBinary a completed load calls ("none": no call is made).
\* if (byteLength >= 800 * 1024) _smartPort.setBinary(...)
\* else includes(DISK_FORMATS, ext) && _disk2.setBinary(...)
RouteBySizeAbove(size, ext) ==
    IF size > SmartPortSize THEN "smartport"
    ELSE IF ext \in DiskFormats THEN "disk2"
    ELSE "none"
RouteBySize(size, ext) ==
    IF size >= SmartPortSize THEN "smartport"
    ELSE IF ext \in DiskFormats THEN "disk2"
    ELSE "none"

\* Whether the completion of a load ends in openAlert, given the device called
\* and the value its setBinary returned.  The two loaders have the same
\* structure: the SmartPort branch has no else, the Disk II branch alerts
\* (local) or throws into the catch handler that alerts (HTTP).
AlertsOnFailure(dev, ok) ==
    CASE dev = "smartport" -> FALSE
      [] dev = "disk2" -> ~ok
      [] OTHER -> TRUE

\* No promise reaction is waiting to run: tasks start only then.
NoMicrotask == ~(vmReady /\ pendingReady > 0)

\* doLoadLocal(drive, file): dispatch on the extension, then doLoadLocalDisk
\* up to fileReader.readAsArrayBuffer(file).
LoadLocal(drive, name, size) ==
    /\ NoMicrotask
    /\ nLoads < MaxLoads
    /\ nLoads' = nLoads + 1
    /\ IF Ext(name) \in DiskFormats
       THEN /\ loadingModal' = TRUE
            /\ inFlight' = inFlight \cup {[id |-> nLoads + 1, kind |-> "local", drive |-> drive,
                                          name |-> name, size |-> size]}
            /\ lastOp' = "loadLocal"
            /\ UNCHANGED alertMsg
       ELSE /\ alertMsg' = "Unknown file type"
            /\ lastOp' = "loadLocalUnknown"
            /\ UNCHANGED <<loadingModal, inFlight>>
    /\ UNCHANGED <<cfgVars, loopVars, tickVars, now, kHz, machineVars, snapVars, uiPaused,
                   focused, vmReady, pendingReady, fragment, lastLoad, lastHash, hashtag, poVars,
                   keyVars, binVars>>

\* fileReader.onload of doLoadLocalDisk (lines 340-366); ok is the value the
\* setBinary that is called returns.
LocalDiskLoaded(l, ok) ==
    /\ NoMicrotask
    /\ l \in inFlight
    /\ l.kind = "local"
    /\ uiPaused \/ pendingReady < MaxWaiters
    /\ LET ext == Ext(l.name)
           dev == RouteBySize(l.size, ext)
           success == dev # "none" /\ ok
           alert == ~success /\ AlertsOnFailure(dev, ok)
       IN /\ fragment' = SetPart(fragment, l.drive, EmptyElement)
          /\ focused' = IF success THEN FALSE ELSE focused
          /\ alertMsg' = IF alert THEN "Unable to load" ELSE alertMsg
          /\ lastLoad' = [kind |-> "local", drive |-> l.drive, ext |-> ext, size |-> l.size,
                          dev |-> dev, ok |-> success, alerted |-> alert, gamepad |-> success]
    /\ inFlight' = inFlight \ {l}
    /\ loadingModal' = FALSE
    /\ pendingReady' = IF ~uiPaused THEN pendingReady + 1 ELSE pendingReady
    /\ lastOp' = "localDiskLoaded"
    /\ UNCHANGED <<cfgVars, loopVars, tickVars, now, kHz, machineVars, snapVars, uiPaused,
                   vmReady, nLoads, lastHash, hashtag, poVars,
                   keyVars, binVars>>

\* doLoadHTTP(drive, url) up to fetch(url) (lines 370-378)
LoadHTTP(drive, urlArg, inputValue) ==
    /\ NoMicrotask
    /\ nLoads < MaxLoads
    /\ nLoads' = nLoads + 1
    /\ loadingModal' = TRUE
    /\ LET url == IF urlArg # NoUrl THEN urlArg ELSE inputValue
       IN IF url # NoUrl
          THEN /\ inFlight' = inFlight \cup {[id |-> nLoads + 1, kind |-> "http",
                                             drive |-> drive, name |-> url, size |-> 0]}
               /\ lastOp' = "loadHTTP"
          ELSE /\ inFlight' = inFlight
               /\ lastOp' = "loadHTTPNoUrl"
    /\ UNCHANGED <<cfgVars, loopVars, tickVars, now, kHz, machineVars, snapVars, uiPaused,
                   focused, vmReady, pendingReady, fragment, alertMsg, lastLoad, lastHash, hashtag, poVars,
                   keyVars, binVars>>

\* The promise chain of doLoadHTTP settles (lines 379-431).  outcome: the
\* response is ok and its body was read ("ok"), the response is not ok
\* ("notOk"), or fetch rejected ("rejected"); size and ok as in LocalDiskLoaded.
HttpSettled(l, outcome, size, ok) ==
    /\ NoMicrotask
    /\ l \in inFlight
    /\ l.kind = "http"
    /\ uiPaused \/ pendingReady < MaxWaiters
    /\ LET ext == Ext(l.name)
           dev == IF outcome = "ok" THEN RouteBySize(size, ext) ELSE "none"
           success == dev # "none" /\ ok
           alert == IF outcome = "ok" THEN ~success /\ AlertsOnFailure(dev, ok) ELSE TRUE
       IN /\ alertMsg' = IF alert
                         THEN (IF outcome = "ok" THEN "Extension not recognized"
                               ELSE "Error loading")
                         ELSE alertMsg
          /\ lastLoad' = [kind |-> "http", drive |-> l.drive, ext |-> ext,
                          size |-> IF outcome = "ok" THEN size ELSE 0,
                          dev |-> dev, ok |-> success, alerted |-> alert, gamepad |-> success]
    /\ inFlight' = inFlight \ {l}
    /\ loadingModal' = FALSE
    /\ pendingReady' = IF ~uiPaused THEN pendingReady + 1 ELSE pendingReady
    /\ lastOp' = "httpSettled"
    /\ UNCHANGED <<cfgVars, loopVars, tickVars, now, kHz, machineVars, snapVars, uiPaused,
                   focused, vmReady, fragment, nLoads, lastHash, hashtag, poVars,
                   keyVars, binVars>>

\* The vm.ready promise resolves.
VmReady ==
    /\ ~vmReady
    /\ vmReady' = TRUE
    /\ lastOp' = "vmReady"
    /\ UNCHANGED <<cfgVars, loopVars, tickVars, now, kHz, machineVars, snapVars, uiPaused,
                   focused, pendingReady, fragment, loadingModal, alertMsg, nLoads, inFlight,
                   lastLoad, lastHash, hashtag, poVars,
                   keyVars, binVars>>

\* One vm.ready.then(() => { _apple2.run(); }) reaction runs.
ReadyThen ==
    /\ vmReady
    /\ pendingReady > 0
    /\ pendingReady' = pendingReady - 1
    /\ RunCore
    /\ lastOp' = "readyRun"
    /\ UNCHANGED <<cfgVars, tickVars, now, kHz, machineVars, snapVars, uiPaused, focused,
                   vmReady, fragment, loadingModal, alertMsg, nLoads, inFlight, lastLoad,
                   lastHash, hashtag, poVars,
                   keyVars, binVars>>

\* pauseRun() (lines 885-899)
PauseRun ==
    /\ NoMicrotask
    /\ IF uiPaused
       THEN /\ pendingReady < MaxWaiters
            /\ pendingReady' = pendingReady + 1
            /\ UNCHANGED loopVars
       ELSE /\ StopCore
            /\ UNCHANGED pendingReady
    /\ uiPaused' = ~uiPaused
    /\ lastOp' = "pauseRun"
    /\ UNCHANGED <<cfgVars, tickVars, now, kHz, machineVars, snapVars, focused, vmReady,
                   fragment, loadingModal, alertMsg, nLoads, inFlight, lastLoad, lastHash, hashtag, poVars,
                   keyVars, binVars>>

\* The focus / blur listeners of the input elements (lines 1000-1001)
Focus ==
    /\ NoMicrotask
    /\ focused' = TRUE
    /\ lastOp' = "focus"
    /\ UNCHANGED <<cfgVars, loopVars, tickVars, now, kHz, machineVars, snapVars, uiPaused,
                   vmReady, pendingReady, fragment, loadingModal, alertMsg, nLoads, inFlight,
                   lastLoad, lastHash, hashtag, poVars,
                   keyVars, binVars>>

Blur ==
    /\ NoMicrotask
    /\ focused' = FALSE
    /\ lastOp' = "blur"
    /\ UNCHANGED <<cfgVars, loopVars, tickVars, now, kHz, machineVars, snapVars, uiPaused,
                   vmReady, pendingReady, fragment, loadingModal, alertMsg, nLoads, inFlight,
                   lastLoad, lastHash, hashtag, poVars,
                   keyVars, binVars>>

\* The key codes of the events delivered: 'A', F1 and F3 (F6 and F9 are
\* QuickSave and QuickRestore)
KeyCodes == {65, 112, 114}

\* _keydown(evt) (lines 732-789) for the key codes of KeyCodes
KeyDown(keyCode, meta, ctrl, key) ==
    /\ keyCalls' = KeyDownMapped(focused, meta, ctrl, e, key)
                       \o (IF keyCode = 114 THEN <<IoKeyDown(Escape)>> ELSE <<>>)
    /\ cpu' = IF keyCode = 112 THEN CpuReset(cpu) ELSE cpu
    /\ lastOp' = "keyDown"
    /\ UNCHANGED <<cfgVars, loopVars, tickVars, now, kHz, ram, mmuLatch, ann0, snapVars,
                   uiVars, poVars, binVars>>

\* _keyup(evt) (lines 791-808) for the key codes of KeyCodes
KeyUp(keyCode) ==
    /\ keyCalls' = IF ~focused THEN <<IoKeyUp>> ELSE <<>>
    /\ lastOp' = "keyUp"
    /\ UNCHANGED <<cfgVars, loopVars, tickVars, now, kHz, machineVars, snapVars, uiVars,
                   poVars, binVars>>

(***************************************************************************)
(* The URL fragment: processHash, loadAjax, and the end of onLoaded         *)
(* (src/js/ui/apple2.ts 211-232, 692-712, 1036-1046).                      *)
(***************************************************************************)
HashElements ==
    {[sep |-> 4, parts |-> <<"http://host/disk", "json">>],
     [sep |-> 4, parts |-> <<"http://host/disk", "JSON">>],
     [sep |-> 4, parts |-> <<"http://host/GAME", "DSK">>],
     [sep |-> 4, parts |-> <<"http://host/GAME">>],
     [sep |-> 0, parts |-> <<"://host/disk", "json">>],
     [sep |-> -1, parts |-> <<"prodos">>],
     EmptyElement}

\* Fragments of one, two and three elements; '' splits into one empty element
EmptyHash == <<EmptyElement>>
Hashes ==
    {<<x>> : x \in HashElements}
    \cup {<<x, y>> : x \in HashElements, y \in HashElements}
    \cup {<<x, y, [sep |-> -1, parts |-> <<"prodos">>]>> : x \in HashElements, y \in HashElements}

\* What processHash does with one element (lines 699-710)
HashRouteSepAnywhere(file) ==
    IF file.sep >= 0
    THEN (IF Ext(file.parts) = "json" THEN "ajax" ELSE "http")
    ELSE IF file # EmptyElement THEN "catalog"
    ELSE "none"
HashRoute(file) ==
    IF file.sep > 0
    THEN (IF Ext(file.parts) = "json" THEN "ajax" ELSE "http")
    ELSE IF file # EmptyElement THEN "catalog"
    ELSE "none"

\* 'json/disks/' + file + '.json', as the pieces of the string
CatalogUrl(file) == <<"json/disks/">> \o file.parts \o <<".json">>

\* The elements processHash looks at: idx < Math.min(2, files.length), and
\* drive = idx + 1 is one of DRIVE_NUMBERS
HashIndexes(hash) == {i \in 1..Min(2, Len(hash)) : i \in Drives}

\* The loads processHash(hash) starts, numbered from base + 1 in the order
\* of the elements
HashLoads(hash, base) ==
    LET started == {i \in HashIndexes(hash) : HashRoute(hash[i]) # "none"}
    IN {[id |-> base + Cardinality({j \in started : j <= i}),
         kind |-> IF HashRoute(hash[i]) = "http" THEN "http" ELSE "ajax",
         drive |-> i,
         name |-> IF HashRoute(hash[i]) = "catalog" THEN CatalogUrl(hash[i])
                  ELSE hash[i].parts,
         size |-> 0] : i \in started}

\* processHash(hash), on the loading modal and the loads in flight: every
\* loadAjax / doLoadHTTP call shows the loading modal and starts a fetch
ProcessHashCore(hash) ==
    /\ lastHash' = hash
    /\ inFlight' = inFlight \cup HashLoads(hash, nLoads)
    /\ nLoads' = nLoads + Cardinality(HashLoads(hash, nLoads))
    /\ loadingModal' = IF HashLoads(hash, nLoads) # {} THEN TRUE ELSE loadingModal

\* The end of onLoaded (lines 1036-1046): with a fragment, stop() and
\* processHash(hash); without one, vm.ready.then(() => { _apple2.run(); })
OnLoaded(hash) ==
    /\ lastOp = "new"
    /\ IF hash # EmptyHash
       THEN /\ StopCore
            /\ ProcessHashCore(hash)
            /\ lastOp' = "onLoaded"
            /\ UNCHANGED pendingReady
       ELSE /\ pendingReady' = pendingReady + 1
            /\ lastOp' = "onLoadedRun"
            /\ UNCHANGED <<loopVars, lastHash, inFlight, nLoads, loadingModal>>
    /\ UNCHANGED <<cfgVars, tickVars, now, kHz, machineVars, snapVars, uiPaused, focused,
                   vmReady, fragment, alertMsg, lastLoad, hashtag, poVars,
                   keyVars, binVars>>

\* The names a load dialog or a dropped URL writes into the fragment: a
\* catalog name (the r1[1] of doLoad) and a URL
FragElements ==
    {[sep |-> -1, parts |-> <<"prodos">>],
     [sep |-> 4, parts |-> <<"http://host/GAME", "DSK">>]}

\* doLoad with a catalog entry or URL chosen for _currentDrive (lines
\* 262-271), and a URL dropped on a drive (lines 166-173):
\* parts[drive - 1] = filename; document.location.hash = parts.join('|')
DoLoad(drive, filename) ==
    /\ NoMicrotask
    /\ fragment' = SetPart(fragment, drive, filename)
    /\ lastOp' = "doLoad"
    /\ UNCHANGED <<cfgVars, loopVars, tickVars, now, kHz, machineVars, snapVars, uiPaused,
                   focused, vmReady, pendingReady, loadingModal, alertMsg, nLoads, inFlight,
                   lastLoad, lastHash, hashtag, poVars, keyVars, binVars>>

\* updateUI() (lines 836-844); hup() is the fragment, falsy when it is ''
UpdateUI ==
    /\ NoMicrotask
    /\ nLoads + 2 <= MaxFragLoads
    /\ IF fragment # hashtag
       THEN /\ hashtag' = fragment
            /\ IF fragment # EmptyHash
               THEN ProcessHashCore(fragment)
               ELSE UNCHANGED <<lastHash, inFlight, nLoads, loadingModal>>
       ELSE UNCHANGED <<hashtag, lastHash, inFlight, nLoads, loadingModal>>
    /\ lastOp' = "updateUI"
    /\ UNCHANGED <<cfgVars, loopVars, tickVars, now, kHz, machineVars, snapVars, uiPaused,
                   focused, vmReady, pendingReady, fragment, alertMsg, lastLoad, poVars,
                   keyVars, binVars>>

(***************************************************************************)
(* The binary loaders: doLoadBinary and loadBinary                         *)
(* (src/js/ui/apple2.ts 316-335, 513-520).                                 *)
(***************************************************************************)
\* Start addresses: parseInt('2000', 16), the default of doLoadLocal, and the
\* last address of the address space.  Images of zero, one and two bytes.
BinStarts == {8192, 65535}
BinImages == {<<>>, <<7>>, <<7, 9>>}

\* A call the loaders make on cpu, as an entry of busCalls
CpuWrite3(page, off, val) == [op |-> "write", args |-> <<page, off, val>>]
CpuWrite2(pos, val) == [op |-> "write", args |-> <<pos, val>>]
CpuResetCall == [op |-> "reset", args |-> <<>>]
CpuSetPC(pc) == [op |-> "setPC", args |-> <<pc>>]

\* fileReader.onload of doLoadBinary (lines 322-331):
\* cpu.write(address >> 8, address & 0xff, bytes[idx]); address++ for every
\* byte, then with runOnLoad cpu.reset(); cpu.setPC(options.address)
DoLoadBinaryCallsRunAtEnd(address, bytes, runOnLoad) ==
    [i \in 1..Len(bytes) |->
        CpuWrite3((address + i - 1) \div 256, (address + i - 1) % 256, bytes[i])]
    \o (IF runOnLoad THEN <<CpuResetCall, CpuSetPC(address + Len(bytes))>> ELSE <<>>)
DoLoadBinaryCalls(address, bytes, runOnLoad) ==
    [i \in 1..Len(bytes) |->
        CpuWrite3((address + i - 1) \div 256, (address + i - 1) % 256, bytes[i])]
    \o (IF runOnLoad THEN <<CpuResetCall, CpuSetPC(address)>> ELSE <<>>)

\* loadBinary(bin) (lines 513-520): pos = bin.start + idx;
\* cpu.write(pos, bin.data[idx]) for every byte, then cpu.reset();
\* cpu.setPC(bin.start)
LoadBinaryCalls(start, data) ==
    [i \in 1..Len(data) |-> CpuWrite2(start + i - 1, data[i])]
    \o <<CpuResetCall, CpuSetPC(start)>>

\* The register file after the calls: reset() and setPC(pc) act on it
RECURSIVE CpuAfter(_, _)
CpuAfter(c, calls) ==
    IF calls = <<>> THEN c
    ELSE LET call == Head(calls)
             c1 == IF call.op = "reset" THEN CpuReset(c)
                   ELSE IF call.op = "setPC" THEN [c EXCEPT !.pc = call.args[1]]
                   ELSE c
         IN CpuAfter(c1, Tail(calls))

\* The address a write call designates: page * 256 + offset for the form
\* with three arguments, the first argument for the form with two
WriteTarget(call) ==
    IF Len(call.args) = 3 THEN call.args[1] * 256 + call.args[2] ELSE call.args[1]

\* read(addr) after the calls on a bus whose write is write(addr, byte):
\* the byte of the last write to addr, Undefined when there was none
BusRead(calls, addr) ==
    LET ws == {i \in 1..Len(calls) : calls[i].op = "write" /\ calls[i].args[1] = addr}
    IN IF ws = {} THEN Undefined
       ELSE calls[CHOOSE i \in ws : \A j \in ws : j <= i].args[2]

\* doLoadBinary(file, options) up to fileReader.readAsArrayBuffer(file)
\* (lines 316-320, 334); bytes is the content of the file
DoLoadBinary(address, runOnLoad, bytes) ==
    /\ NoMicrotask
    /\ binPending = NoBin
    /\ binPending' = [address |-> address, runOnLoad |-> runOnLoad, bytes |-> bytes]
    /\ loadingModal' = TRUE
    /\ lastOp' = "doLoadBinary"
    /\ UNCHANGED <<cfgVars, loopVars, tickVars, now, kHz, machineVars, snapVars, uiPaused,
                   focused, vmReady, pendingReady, fragment, alertMsg, nLoads, inFlight,
                   lastLoad, lastHash, hashtag, poVars, keyVars, busCalls, lastBin>>

\* fileReader.onload of doLoadBinary (lines 321-333)
BinaryLoaded ==
    /\ NoMicrotask
    /\ binPending # NoBin
    /\ uiPaused \/ pendingReady < MaxWaiters
    /\ LET calls == DoLoadBinaryCalls(binPending.address, binPending.bytes,
                                      binPending.runOnLoad)
       IN /\ busCalls' = calls
          /\ cpu' = CpuAfter(cpu, calls)
    /\ \E r \in RamVals : ram' = IF binPending.bytes = <<>> THEN ram ELSE r
    /\ lastBin' = [loader |-> "doLoadBinary", start |-> binPending.address,
                   bytes |-> binPending.bytes, run |-> binPending.runOnLoad]
    /\ binPending' = NoBin
    /\ loadingModal' = FALSE
    /\ pendingReady' = IF ~uiPaused THEN pendingReady + 1 ELSE pendingReady
    /\ lastOp' = "binaryLoaded"
    /\ UNCHANGED <<cfgVars, loopVars, tickVars, now, kHz, mmuLatch, ann0, snapVars, uiPaused,
                   focused, vmReady, fragment, alertMsg, nLoads, inFlight, lastLoad, lastHash,
                   hashtag, poVars, keyVars>>

\* The promise chain of loadAjax settles (lines 214-231).  outcome: the
\* response is ok and is JSON ("ok"), or not ("failed"); dtype is data.type;
\* a binary image data is written to memory at start (loadBinary, lines
\* 513-520).
AjaxSettled(l, outcome, dtype, start, data) ==
    /\ NoMicrotask
    /\ l \in inFlight
    /\ l.kind = "ajax"
    /\ uiPaused \/ pendingReady < MaxWaiters
    /\ IF outcome = "ok" /\ dtype = "binary"
       THEN /\ \E r \in RamVals : ram' = IF data = <<>> THEN ram ELSE r
            /\ busCalls' = LoadBinaryCalls(start, data)
            /\ cpu' = CpuAfter(cpu, LoadBinaryCalls(start, data))
            /\ lastBin' = [loader |-> "loadBinary", start |-> start, bytes |-> data,
                           run |-> TRUE]
       ELSE UNCHANGED <<cpu, ram, busCalls, lastBin>>
    /\ alertMsg' = IF outcome = "ok" THEN alertMsg ELSE "Error loading"
    /\ lastLoad' = [kind |-> "ajax", drive |-> l.drive, ext |-> "", size |-> 0,
                    dev |-> "none", ok |-> outcome = "ok", alerted |-> outcome # "ok",
                    gamepad |-> outcome = "ok"]
    /\ inFlight' = inFlight \ {l}
    /\ loadingModal' = FALSE
    /\ pendingReady' = IF ~uiPaused THEN pendingReady + 1 ELSE pendingReady
    /\ lastOp' = "ajaxSettled"
    /\ UNCHANGED <<cfgVars, loopVars, tickVars, now, kHz, mmuLatch, ann0, snapVars, uiPaused,
                   focused, vmReady, fragment, nLoads, lastHash, hashtag, poVars,
                   keyVars, binPending>>

(***************************************************************************)
(* ProDOS(options) (src/js/formats/po.js)                                  *)
(***************************************************************************)
\* The ProDOS interleave: PO[physical_sector] is the logical sector
PO == <<0, 8, 1, 9, 2, 10, 3, 11, 4, 12, 5, 13, 6, 14, 7, 15>>

\* const prodos_sector = PO[physical_sector]
SectorIdentity(p) == p
SectorFor(p) == PO[p + 1]

\* x || d on a number that may be undefined
OrDefault(x, d) == IF x = Undefined \/ x = 0 THEN d ELSE x

\* The size of a complete image, and of one that lacks its last sector
FullLen == NumTracks * NumSectors * SectorSize
ShortLen == FullLen - SectorSize

\* var off = (16 * physical_track + prodos_sector) * 256
RawOffsetNoTrackStride(t, l) == (t + l) * 256
RawOffset(t, l) == (16 * t + l) * 256

\* new Uint8Array(rawData.slice(off, off + 256)): the bytes [a, b) of rawData;
\* slice clamps both ends to the length of the buffer
RawSlice(len, from, to) ==
    [src |-> "raw", a |-> Min(from, len), b |-> Min(to, len)]

\* data[physical_track][prodos_sector]
DataSector(t, l) == [src |-> "data", a |-> t, b |-> l]

\* explodeSector16(volume, track, sector, data): the nibble stream of one
\* sector, kept as one item that records the four arguments
ExplodeSector16(v, t, p, d) == <<[volume |-> v, track |-> t, sector |-> p, data |-> d]>>

\* bytify(track): the nibbles, which are bytes already, as a Uint8Array
Bytify(track) == [i \in 1..Len(track) |-> track[i]]

POOptionSets ==
    {[volume |-> v, hasRaw |-> s.hasRaw, rawLen |-> s.rawLen, hasData |-> s.hasData,
      readOnly |-> ro] :
        v \in {Undefined, 1, DefaultVolume},
        s \in {[hasRaw |-> TRUE, rawLen |-> FullLen, hasData |-> FALSE],
               [hasRaw |-> TRUE, rawLen |-> ShortLen, hasData |-> TRUE],
               [hasRaw |-> FALSE, rawLen |-> 0, hasData |-> TRUE]},
        ro \in BOOLEAN}

NoOptions == [volume |-> Undefined, hasRaw |-> FALSE, rawLen |-> 0, hasData |-> FALSE,
              readOnly |-> FALSE]
NoDisk == [format |-> "", volume |-> 0, tracks |-> <<>>, readOnly |-> FALSE]

\* ProDOS(options): lines 21-33, up to the first iteration of the inner loop
POCall(opts) ==
    /\ poPhase \in {"idle", "done"}
    /\ poOptions' = opts
    /\ poDisk' = [format |-> "nib", volume |-> OrDefault(opts.volume, DefaultVolume),
                  tracks |-> <<>>, readOnly |-> opts.readOnly]
    /\ poTrack' = 0
    /\ poSector' = 0
    /\ poCur' = <<>>
    /\ poPhase' = "loop"
    /\ lastOp' = "ProDOS"
    /\ UNCHANGED <<cfgVars, loopVars, tickVars, now, kHz, machineVars, snapVars, uiVars,
                   keyVars, binVars>>

\* One iteration of the inner loop (lines 35-45); after the last sector of a
\* track also line 47, and after the last track the return.
POSector ==
    /\ poPhase = "loop"
    /\ LET l == SectorFor(poSector)
           off == RawOffset(poTrack, l)
           sector == IF poOptions.hasRaw
                     THEN RawSlice(poOptions.rawLen, off, off + 256)
                     ELSE DataSector(poTrack, l)
           track == poCur \o ExplodeSector16(poOptions.volume, poTrack, poSector, sector)
       IN IF poSector + 1 < NumSectors
          THEN /\ poCur' = track
               /\ poSector' = poSector + 1
               /\ UNCHANGED <<poDisk, poTrack, poPhase>>
          ELSE /\ poDisk' = [poDisk EXCEPT !.tracks = Append(@, Bytify(track))]
               /\ poCur' = <<>>
               /\ poSector' = 0
               /\ poTrack' = poTrack + 1
               /\ poPhase' = IF poTrack + 1 < NumTracks THEN "loop" ELSE "done"
    /\ lastOp' = "sector"
    /\ UNCHANGED <<cfgVars, loopVars, tickVars, now, kHz, machineVars, snapVars, uiVars,
                   poOptions, keyVars, binVars>>

(***************************************************************************)
(* Initial states and specifications.                                      *)
(***************************************************************************)
\* The Apple2 object after its constructor, on a host whose clock reads 0.
Constructed ==
    /\ paused = FALSE
    /\ runTimer = Null
    /\ runAnimationFrame = Null
    /\ nRuns = 0
    /\ last = [c \in 1..(MaxRuns + 1) |-> 0]
    /\ prevTickAt = [c \in 1..(MaxRuns + 1) |-> 0]
    /\ rafQueue = {}
    /\ intervals = {}
    /\ nextHandle = 1
    /\ stopped = FALSE
    /\ stats = [frames |-> 0, renderedFrames |-> 0]
    /\ inTick = Null
    /\ cpuStep = 0
    /\ tickTrace = <<>>
    /\ tickElapsed = 0
    /\ tickBlit = [vm |-> "none", io |-> "none"]
    /\ now = 0
    /\ kHz = 1023
    /\ cpu = [a |-> 0, pc |-> 0]
    /\ ram = 0
    /\ mmuLatch = FALSE
    /\ ann0 = FALSE
    /\ held = NoSnapshot
    /\ localState = NoSnapshot
    /\ heldMem = [ram |-> 0, mmu |-> FALSE, ann0 |-> FALSE]
    /\ lastOp = "new"

\* The module state of the UI, with n reactions waiting on vm.ready.
UIState(n) ==
    /\ uiPaused = FALSE
    /\ focused = FALSE
    /\ vmReady = FALSE
    /\ pendingReady = n
    /\ fragment = <<EmptyElement>>
    /\ loadingModal = FALSE
    /\ alertMsg = ""
    /\ nLoads = 0
    /\ inFlight = {}
    /\ lastLoad = NoLoad
    /\ lastHash = <<>>
    /\ hashtag = <<EmptyElement>>
    /\ keyCalls = <<>>
    /\ binPending = NoBin
    /\ busCalls = <<>>
    /\ lastBin = NoBinLoad

\* ProDOS has not been called.
POIdle ==
    /\ poPhase = "idle"
    /\ poOptions = NoOptions
    /\ poTrack = 0
    /\ poSector = 0
    /\ poCur = <<>>
    /\ poDisk = NoDisk

\* The run-loop: run, stop, ticks, the clock and the speed switch, on either
\* machine and either kind of host, running a program that spins.
Init ==
    /\ Constructed
    /\ UIState(0)
    /\ POIdle
    /\ e \in BOOLEAN
    /\ multiScreen \in BOOLEAN
    /\ hasRAF \in BOOLEAN
    /\ prog = "spin"

Next ==
    \/ Run
    \/ Stop
    \/ \E cb \in rafQueue \cup intervals : TickBegin(cb)
    \/ TickEnd
    \/ Advance(TimeStep)
    \/ UpdateCPU

Spec == Init /\ [][Next]_vars

\* The run-loop on a host that fires every callback it was asked to fire: a
\* requested frame or an interval that stays scheduled is eventually run, and a
\* tick that has called the hook eventually gets past it.
NextLive ==
    \/ Run
    \/ Stop
    \/ \E cb \in rafQueue \cup intervals : TickBegin(cb)
    \/ TickEnd
    \/ Advance(TimeStep)

SpecLive ==
    /\ Init
    /\ [][NextLive]_vars
    /\ WF_vars(\E cb \in rafQueue \cup intervals : TickBegin(cb))
    /\ WF_vars(TickEnd)

\* Ticks in detail: the run-loop with reset() and the snapshot interface, on
\* either machine and either kind of host, running a program that switches
\* annunciator 0.
InitTick ==
    /\ Constructed
    /\ UIState(0)
    /\ POIdle
    /\ e \in BOOLEAN
    /\ multiScreen \in BOOLEAN
    /\ hasRAF \in BOOLEAN
    /\ prog = "ann"

NextTick ==
    \/ Run
    \/ Stop
    \/ \E cb \in rafQueue \cup intervals : TickBegin(cb)
    \/ TickEnd
    \/ Advance(TimeStep)
    \/ Reset
    \/ GetState
    \/ SetState

SpecTick == InitTick /\ [][NextTick]_vars

\* The snapshot interface on a IIe that runs an arbitrary program.
InitState ==
    /\ Constructed
    /\ UIState(0)
    /\ POIdle
    /\ e = TRUE
    /\ multiScreen = FALSE
    /\ hasRAF = TRUE
    /\ prog = "any"

NextState ==
    \/ Run
    \/ GetState
    \/ SetState
    \/ RoundTrip
    \/ QuickSave
    \/ QuickRestore
    \/ ForeignState
    \/ StepCyclesDirect
    \/ Reset

SpecState == InitState /\ [][NextState]_vars

\* Disk loading: the UI after onLoaded() found no fragment to process and
\* queued its vm.ready.then(() => { _apple2.run(); }) (line 1043).
InitLoad ==
    /\ Constructed
    /\ UIState(1)
    /\ POIdle
    /\ e = TRUE
    /\ multiScreen = FALSE
    /\ hasRAF = TRUE
    /\ prog = "spin"

NextLoad ==
    \/ \E d \in Drives, n \in FileNames, sz \in Sizes : LoadLocal(d, n, sz)
    \/ \E l \in inFlight, ok \in BOOLEAN : LocalDiskLoaded(l, ok)
    \/ \E d \in Drives, u \in FileNames \cup {NoUrl}, i \in FileNames \cup {NoUrl} :
          LoadHTTP(d, u, i)
    \/ \E l \in inFlight, oc \in {"ok", "notOk", "rejected"}, sz \in Sizes, ok \in BOOLEAN :
          HttpSettled(l, oc, sz, ok)
    \/ VmReady
    \/ ReadyThen
    \/ PauseRun
    \/ Focus
    \/ Blur

SpecLoad == InitLoad /\ [][NextLoad]_vars

\* Start-up with a fragment: the UI before the end of onLoaded, then the
\* loads the fragment starts and the vm.ready promise.
InitHash ==
    /\ Constructed
    /\ UIState(0)
    /\ POIdle
    /\ e = TRUE
    /\ multiScreen = FALSE
    /\ hasRAF = TRUE
    /\ prog = "spin"

NextHash ==
    \/ \E hash \in Hashes : OnLoaded(hash)
    \/ \E l \in inFlight, oc \in {"ok", "failed"}, dt \in {"binary", "dsk", "other"},
          st \in RegVals, data \in {<<7>>} : AjaxSettled(l, oc, dt, st, data)
    \/ \E l \in inFlight, oc \in {"ok", "notOk", "rejected"}, sz \in Sizes, ok \in BOOLEAN :
          HttpSettled(l, oc, sz, ok)
    \/ VmReady
    \/ ReadyThen

SpecHash == InitHash /\ [][NextHash]_vars

\* The fragment after start-up: load dialogs, dropped URLs and local disk
\* loads rewrite it, updateUI() looks at it, and the loads it starts settle.
InitFrag ==
    /\ Constructed
    /\ UIState(0)
    /\ POIdle
    /\ e = TRUE
    /\ multiScreen = FALSE
    /\ hasRAF = TRUE
    /\ prog = "spin"

NextFrag ==
    \/ \E d \in Drives, f \in FragElements : DoLoad(d, f)
    \/ UpdateUI
    \/ \E d \in Drives, sz \in Sizes : LoadLocal(d, <<"GAME", "DSK">>, sz)
    \/ \E l \in inFlight, ok \in BOOLEAN : LocalDiskLoaded(l, ok)
    \/ \E l \in inFlight, oc \in {"ok", "failed"}, dt \in {"dsk"}, st \in RegVals :
          AjaxSettled(l, oc, dt, st, <<>>)
    \/ \E l \in inFlight, oc \in {"ok", "notOk", "rejected"}, sz \in Sizes, ok \in BOOLEAN :
          HttpSettled(l, oc, sz, ok)
    \/ VmReady
    \/ ReadyThen

SpecFrag == InitFrag /\ [][NextFrag]_vars

\* The binary loaders: local binary files read by doLoadBinary, and a
\* start-up fragment that names a JSON binary, which loadBinary writes.
InitBin ==
    /\ Constructed
    /\ UIState(0)
    /\ POIdle
    /\ e = TRUE
    /\ multiScreen = FALSE
    /\ hasRAF = TRUE
    /\ prog = "spin"

NextBin ==
    \/ \E a \in BinStarts, run \in BOOLEAN, bytes \in BinImages : DoLoadBinary(a, run, bytes)
    \/ BinaryLoaded
    \/ OnLoaded(<<[sep |-> 4, parts |-> <<"http://host/disk", "json">>]>>)
    \/ \E l \in inFlight, oc \in {"ok", "failed"}, dt \in {"binary", "dsk"},
          st \in BinStarts, data \in BinImages : AjaxSettled(l, oc, dt, st, data)
    \/ VmReady
    \/ ReadyThen

SpecBin == InitBin /\ [][NextBin]_vars

\* The keyboard listeners on a page whose input elements gain and lose focus,
\* while the machine runs an arbitrary program.
InitKeys ==
    /\ Constructed
    /\ UIState(0)
    /\ POIdle
    /\ e \in BOOLEAN
    /\ multiScreen = FALSE
    /\ hasRAF = TRUE
    /\ prog = "any"

NextKeys ==
    \/ Focus
    \/ Blur
    \/ \E kc \in KeyCodes, meta \in BOOLEAN, ctrl \in BOOLEAN, key \in MapKeyOutcomes :
          KeyDown(kc, meta, ctrl, key)
    \/ \E kc \in KeyCodes : KeyUp(kc)
    \/ QuickSave
    \/ QuickRestore
    \/ StepCyclesDirect

SpecKeys == InitKeys /\ [][NextKeys]_vars

\* The ProDOS-order loader on every option set of POOptionSets.
InitPO ==
    /\ Constructed
    /\ UIState(0)
    /\ POIdle
    /\ e = TRUE
    /\ multiScreen = FALSE
    /\ hasRAF = TRUE
    /\ prog = "spin"

NextPO ==
    \/ \E opts \in POOptionSets : POCall(opts)
    \/ POSector

SpecPO == InitPO /\ [][NextPO]_vars

(***************************************************************************)
(* Properties.                                                             *)
(***************************************************************************)

\* C1: once stop() has returned (and run() has not been called again), both
\* handles are null and no further tick executes, also when stop() was called
\* from inside the tick hook.
C1_StopHalts ==
    stopped => (runTimer = Null /\ runAnimationFrame = Null /\ lastOp # "tick")

\* C2: run() while a handle is held is a no-op: it schedules nothing, creates
\* no closure and changes neither handle nor the statistics.
C2_RunWhileRunningIsNoop ==
    [][(lastOp' \in {"run", "runNoop"} /\ (runTimer # Null \/ runAnimationFrame # Null))
        => UNCHANGED <<runTimer, runAnimationFrame, stats, rafQueue, intervals, nextHandle,
                       nRuns, last>>]_vars

C2_Witness ==
    lastOp = "runNoop" /\ (runTimer # Null \/ runAnimationFrame # Null)

\* C3: the cycle budget of a tick is min(elapsed ms * kHz, kHz * 30), elapsed
\* being the time since the previous tick of the same run() (or since run()).
C3_BudgetClamped ==
    lastOp = "tick" =>
        /\ cpuStep = Min(tickElapsed * kHz, kHz * Interval)
        /\ cpuStep <= kHz * 30

C3_Witness ==
    lastOp = "tick" /\ tickElapsed > Interval /\ cpuStep = kHz * Interval

\* C4: setState(s) with s = an earlier getState() brings back the RAM, the MMU
\* latches and the I/O latches of the moment s was taken.
C4_RestoreBringsBackMemory ==
    lastOp = "setState" =>
        (ram = heldMem.ram /\ mmuLatch = heldMem.mmu /\ ann0 = heldMem.ann0)

C6_BadSnapshotRejected ==
    [][(lastOp' = "quickRestore" /\ VersionMismatch(Parse(localState)))
        => UNCHANGED <<cpu, ram, mmuLatch, ann0>>]_vars

\* C8: a completed local or HTTP load whose device's setBinary returned false
\* has shown an alert.
C8_FailedLoadAlerts ==
    (lastLoad.dev # "none" /\ ~lastLoad.ok) => lastLoad.alerted

\* C9: with the volume option omitted, disk.volume is 254 and every one of the
\* 35 x 16 calls of explodeSector16 got volume 254.
C9_OmittedVolumeIs254 ==
    (poPhase = "done" /\ poOptions.volume = Undefined) =>
        /\ poDisk.volume = 254
        /\ \A t \in 1..35, p \in 1..16 : poDisk.tracks[t][p].volume = 254

\* C10: the disk returned has exactly 35 tracks; track t is the concatenation
\* over p = 0..15 of explodeSector16(volume, t, p, sector(t, PO[p])), where
\* sector(t, l) is bytes [(16t + l) * 256, (16t + l) * 256 + 256) of rawData
\* when rawData is given (and holds them), otherwise data[t][l].
C10_TracksAreInterleavedSectors ==
    poPhase = "done" =>
        /\ Len(poDisk.tracks) = 35
        /\ \A t \in 0..34 :
              /\ Len(poDisk.tracks[t + 1]) = 16
              /\ \A p \in 0..15 :
                    LET l == PO[p + 1]
                        off == (16 * t + l) * 256
                        item == poDisk.tracks[t + 1][p + 1]
                    IN /\ item.volume = poOptions.volume
                       /\ item.track = t
                       /\ item.sector = p
                       /\ IF poOptions.hasRaw
                          THEN off + 256 <= poOptions.rawLen =>
                                  item.data = [src |-> "raw", a |-> off, b |-> off + 256]
                          ELSE item.data = [src |-> "data", a |-> t, b |-> l]

C10_Witness ==
    /\ poPhase = "done"
    /\ poOptions.hasRaw
    /\ poOptions.rawLen = FullLen
    /\ poDisk.tracks[35][2].data = [src |-> "raw", a |-> (16 * 34 + 8) * 256,
                                   b |-> (16 * 34 + 8) * 256 + 256]

\* C11: within a tick the calls occur in the order stepCycles, resetVB (once on
\* a IIe, never on a II), the blit(s), frames++, io.tick(), the tick() hook;
\* the request for the next frame comes after all of them.
C11_TickOrder ==
    tickTrace # <<>> =>
        LET n == Len(tickTrace)
            At(x) == {i \in 1..n : tickTrace[i] = x}
            Blits == At("vm.blit") \cup At("io.blit")
        IN /\ At("stepCycles") = {1}
           /\ At("resetVB") = (IF e THEN {2} ELSE {})
           /\ Blits # {}
           /\ \E f \in 1..n :
                 /\ At("frames++") = {f}
                 /\ At("io.tick") = {f + 1}
                 /\ At("tick") = {f + 2}
                 /\ \A b \in Blits : (IF e THEN 2 ELSE 1) < b /\ b < f
                 /\ \A r \in At("renderedFrames++") : r < f
                 /\ At("requestAnimationFrame") \in {{}, {f + 3}}
                 /\ n \in {f + 2, f + 3}

C11_Witness ==
    /\ lastOp = "tickEnd"
    /\ e
    /\ tickTrace = <<"stepCycles", "resetVB", "vm.blit", "io.blit", "renderedFrames++",
                     "frames++", "io.tick", "tick", "requestAnimationFrame">>

\* C12: in every tick renderedFrames goes up by one if the blit that counts
\* reported a change and stays otherwise; the blit that counts is vm.blit()
\* with annunciator 0 clear and io.blit() with annunciator 0 set, also in
\* multi-screen mode, where vm.blit() is performed as well.
C12_RenderedIffBlitChanged ==
    [][lastOp' = "tick" =>
        /\ stats'.renderedFrames - stats.renderedFrames =
              (IF (IF ann0' THEN tickBlit'.io = "changed" ELSE tickBlit'.vm = "changed")
               THEN 1 ELSE 0)
        /\ tickBlit'.io # "none" <=> ann0'
        /\ tickBlit'.vm # "none" <=> (~ann0' \/ multiScreen)]_vars

C12_Witness ==
    /\ lastOp = "tick"
    /\ ann0 /\ multiScreen
    /\ tickBlit = [vm |-> "changed", io |-> "same"]
    /\ stats = [frames |-> 1, renderedFrames |-> 0]

\* C13: frames goes up by exactly one in every tick and renderedFrames by at
\* most one; run(), stop(), reset(), getState() and setState() leave both as
\* they are, so neither counter ever decreases.
C13_StatsMonotonic ==
    [][/\ stats'.frames >= stats.frames
       /\ stats'.renderedFrames >= stats.renderedFrames
       /\ lastOp' = "tick" =>
             /\ stats'.frames = stats.frames + 1
             /\ stats'.renderedFrames - stats.renderedFrames \in {0, 1}
       /\ lastOp' # "tick" => stats' = stats]_vars

C13_Witness ==
    /\ lastOp \in {"setState", "reset"}
    /\ stats.frames = MaxFrames
    /\ stats.renderedFrames = 1

\* C14: the end of a tick requests exactly one next frame (on a host without
\* requestAnimationFrame the interval set by run() stays as it is); paused is
\* never set, so the other case does not arise; and while a tick is pending
\* and stop() is not called another tick follows (as far as the handles of
\* the model reach).
C14_RescheduleAndProgress ==
    /\ [][lastOp' = "tickEnd" =>
            IF hasRAF
            THEN /\ rafQueue' = rafQueue \cup {[h |-> runAnimationFrame', c |-> inTick]}
                 /\ Cardinality(rafQueue') = Cardinality(rafQueue) + 1
                 /\ UNCHANGED intervals
            ELSE UNCHANGED <<rafQueue, intervals>>]_vars
    /\ [](~paused)
    /\ \A n \in 0..(MaxFrames - 1) :
          ((stats.frames = n /\ (rafQueue \cup intervals # {} \/ inTick # Null))
             ~> (stats.frames > n \/ stopped \/ nextHandle > MaxHandle))

C14_Witness ==
    /\ lastOp = "tick"
    /\ stats.frames = 2
    /\ nRuns = 1
    /\ ~stopped

\* C15: in both loaders a loaded image of 800 * 1024 bytes or more is offered
\* to SmartPort, a smaller one to Disk II when its extension is a disk format
\* and to no device otherwise; lastLoad.dev is the one device whose setBinary
\* was called.
C15_RoutedBySize ==
    (lastLoad.kind # "none" /\ lastLoad.size > 0) =>
        /\ lastLoad.size >= 800 * 1024 => lastLoad.dev = "smartport"
        /\ lastLoad.size < 800 * 1024 =>
              lastLoad.dev = (IF lastLoad.ext \in DiskFormats THEN "disk2" ELSE "none")

C15_Witness ==
    /\ lastLoad.kind = "http"
    /\ lastLoad.size = 800 * 1024
    /\ lastLoad.dev = "smartport"
    /\ lastLoad.ext = "txt"

\* C16: processHash looks at the first two elements only, element i (0-based)
\* for drive i + 1: '://' after the first character and last extension json
\* -> loadAjax of the element; '://' after the first character otherwise ->
\* doLoadHTTP of the element; any other non-empty element -> loadAjax of
\* json/disks/<element>.json; an empty element -> no load.
C16_HashRouting ==
    lastOp = "onLoaded" =>
        \A d \in 1..3 :
            LET loads == {[kind |-> l.kind, name |-> l.name] : l \in {x \in inFlight : x.drive = d}}
            IN IF d > 2 \/ d > Len(lastHash)
               THEN loads = {}
               ELSE LET x == lastHash[d]
                        isJson == x.parts[Len(x.parts)] \in {"json", "JSON"}
                    IN IF x.sep > 0 /\ isJson
                       THEN loads = {[kind |-> "ajax", name |-> x.parts]}
                       ELSE IF x.sep > 0
                       THEN loads = {[kind |-> "http", name |-> x.parts]}
                       ELSE IF x.parts # <<"">>
                       THEN loads = {[kind |-> "ajax",
                                      name |-> <<"json/disks/">> \o x.parts \o <<".json">>]}
                       ELSE loads = {}

C16_Witness ==
    /\ lastOp = "onLoaded"
    /\ Len(lastHash) = 3
    /\ lastHash[1] = [sep |-> 0, parts |-> <<"://host/disk", "json">>]
    /\ lastHash[2] = [sep |-> 4, parts |-> <<"http://host/GAME", "DSK">>]
    /\ Cardinality(inFlight) = 2

\* C17: reset(), in whatever state the run-loop is, leaves runTimer,
\* runAnimationFrame, paused, the stats and what the host has scheduled as
\* they are.
C17_ResetKeepsRunLoop ==
    [][lastOp' = "reset" =>
        UNCHANGED <<runTimer, runAnimationFrame, paused, stats, rafQueue, intervals, inTick>>]_vars

C17_Witness ==
    /\ lastOp = "reset"
    /\ runAnimationFrame # Null
    /\ inTick # Null
    /\ rafQueue = {}

\* C18: when run() has returned, runTimer or runAnimationFrame is non-null,
\* whether the call took effect or found the emulator running.
C18_RunLeavesHandle ==
    lastOp \in {"run", "runNoop"} => (runTimer # Null \/ runAnimationFrame # Null)

C18_Witness ==
    /\ lastOp = "run"
    /\ runTimer # Null
    /\ runAnimationFrame = Null
    /\ nRuns = 2
    /\ inTick # Null

\* C19: at most one tick callback is scheduled at any time, and the handle in
\* runTimer / runAnimationFrame is the handle of that callback.
C19_AtMostOnePending ==
    /\ Cardinality(rafQueue \cup intervals) <= 1
    /\ \A cb \in rafQueue : cb.h = runAnimationFrame
    /\ \A cb \in intervals : cb.h = runTimer

\* C20: while the UI's paused flag is true the emulator holds no handle, that
\* is, no run() has taken effect since the pauseRun() that paused.
C20_PausedNotRunning ==
    uiPaused => (runTimer = Null /\ runAnimationFrame = Null)

\* C21: a loading modal that is open belongs to a load that is still in
\* flight and will close it; no load operation leaves the modal open with
\* nothing left to close it.
C21_ModalHasLoadInFlight ==
    loadingModal => inFlight # {}

\* C26: for a raw image of 35 * 16 * 256 = 143,360 bytes the 560 sectors
\* nibblized are 560 different 256-byte slices of the image, each within
\* [0, 143360), and together they are all of its 256-byte sectors.
C26_EverySectorOnce ==
    (poPhase = "done" /\ poOptions.hasRaw /\ poOptions.rawLen = 143360) =>
        LET items == {<<t, p>> : t \in 1..35, p \in 1..16}
            offs == {poDisk.tracks[i[1]][i[2]].data.a : i \in items}
        IN /\ \A i \in items :
                 LET d == poDisk.tracks[i[1]][i[2]].data
                 IN d.src = "raw" /\ d.a >= 0 /\ d.a <= 143360 - 256 /\ d.b = d.a + 256
           /\ \A i \in items, j \in items :
                 i # j => poDisk.tracks[i[1]][i[2]].data.a # poDisk.tracks[j[1]][j[2]].data.a
           /\ offs = {256 * k : k \in 0..559}

C26_Witness ==
    /\ poPhase = "done"
    /\ poOptions.hasRaw
    /\ poOptions.rawLen = 143360
    /\ poOptions.volume = 1
    /\ poDisk.tracks[1][2].data.a = 8 * 256
    /\ poDisk.tracks[35][16].data.a = 143360 - 256

\* C27: while an input or textarea has focus no key-down or key-up event
\* makes a call of io.keyDown or io.keyUp, and in any state io.keyDown is
\* never called with the unmapped key code 0xff.
C27_FocusedKeysStayOut ==
    /\ (focused /\ lastOp \in {"keyDown", "keyUp", "quickSave", "quickRestore",
                                "quickRestoreNone"}) => keyCalls = <<>>
    /\ \A i \in 1..Len(keyCalls) : keyCalls[i] # IoKeyDown(Unmapped)

\* C22: when updateUI() observes a changed fragment, every load it starts is
\* for a drive whose element of the fragment changed; the other drive is not
\* loaded again.
C22_OnlyChangedDriveLoads ==
    [][lastOp' = "updateUI" =>
         \A l \in inFlight' \ inFlight :
            (IF l.drive <= Len(fragment) THEN fragment[l.drive] ELSE EmptyElement)
              # (IF l.drive <= Len(hashtag) THEN hashtag[l.drive] ELSE EmptyElement)]_vars

\* C23: after a binary image of n bytes is loaded at start address A by
\* doLoadBinary or loadBinary, read(A + i) on the bus returns byte i of the
\* image for every i in [0, n) (every address counted as RAM-backed), and
\* every write either loader makes has the form write(addr, byte).
C23_ImageReadsBack ==
    lastBin.loader # "none" =>
        /\ \A i \in 1..Len(lastBin.bytes) :
              lastBin.start + i - 1 <= 65535 =>
                 BusRead(busCalls, lastBin.start + i - 1) = lastBin.bytes[i]
        /\ \A k \in 1..Len(busCalls) :
              busCalls[k].op = "write" => Len(busCalls[k].args) = 2

\* C24: every address or page number the binary loaders pass to the bus lies
\* within the 16-bit address space: byte i goes to (start + i) mod 2^16, and
\* a page number never exceeds 0xFF.
C24_AddressesWithin16Bits ==
    \A k \in 1..Len(busCalls) :
        busCalls[k].op = "write" =>
            /\ WriteTarget(busCalls[k]) = (lastBin.start + k - 1) % 65536
            /\ Len(busCalls[k].args) = 3 => busCalls[k].args[1] <= 255

\* C25: a binary loaded with run-on-load is written first, then the CPU is
\* reset, then the PC is set: the calls are the n writes, reset(), and
\* setPC(start), and afterwards PC is the start address of the image.
C25_WriteResetSetPC ==
    (lastOp \in {"binaryLoaded", "ajaxSettled"} /\ lastBin.loader # "none" /\ lastBin.run) =>
        LET n == Len(lastBin.bytes)
        IN /\ Len(busCalls) = n + 2
           /\ \A k \in 1..n : busCalls[k].op = "write"
           /\ busCalls[n + 1] = CpuResetCall
           /\ busCalls[n + 2] = CpuSetPC(lastBin.start)
           /\ cpu.pc = lastBin.start

C25_Witness ==
    /\ lastOp = "binaryLoaded"
    /\ lastBin = [loader |-> "doLoadBinary", start |-> 8192, bytes |-> <<7, 9>>, run |-> TRUE]
    /\ Len(busCalls) = 4
    /\ cpu.pc = 8192

====
